---- MODULE Spec2Model ----
(***************************************************************************)
(* Model of gemini.py: the per-credential probe test_key (retry/backoff    *)
(* loop and classification), the worker that runs one probe under the      *)
(* semaphore, and main_async (read keys, spawn workers, gather, report).   *)
(*                                                                         *)
(* Texts (keys, response bodies, exception messages, details) are          *)
(* sequences of one-character strings so that slicing and stripping are    *)
(* computed as Python computes them.  Every action is the code that runs   *)
(* between two suspension points of the asyncio event loop.  The wall      *)
(* clock field _elapsed of a result is not modelled.                       *)
(***************************************************************************)
EXTENDS Integers, Sequences, FiniteSets, TLC

VARIABLES
    lines, concurrency,                     \* inputs of main_async
    mpc, keys, total,                       \* main_async: position, keys, total
    pc, attempt, backoff,                   \* per worker task: position, test_key locals
    sem, waiters, woken,                    \* asyncio.Semaphore: _value, _waiters, waiters whose future is done
    results, success_set, progress,         \* shared accumulators, progress lines (idx)
    csv, success_file, summary,             \* outputs of main_async
    p_pc, p_key, p_attempt, p_backoff,      \* a single probe observed in isolation
    p_requests, p_sleeps, p_hist, p_result,
    p_trace                                 \* the probe's events in order

runVars == <<lines, concurrency, mpc, keys, total, pc, attempt, backoff, sem, waiters, woken, results, success_set, progress, csv, success_file, summary>>

probeVars == <<p_pc, p_key, p_attempt, p_backoff, p_requests, p_sleeps, p_hist, p_result, p_trace>>

vars == <<lines, concurrency, mpc, keys, total, pc, attempt, backoff, sem, waiters, woken, results, success_set, progress, csv, success_file, summary, p_pc, p_key, p_attempt, p_backoff, p_requests, p_sleeps, p_hist, p_result, p_trace>>

----------------------------------------------------------------------------
(* Program constants *)

MAX_RETRIES == 3

INITIAL_BACKOFF == 1

BACKOFF_FACTOR == 2

DetailLimit == 500

ExcLimit == 300

(* Bounds of the model *)

MaxLines == 2

MaxConc == 2

----------------------------------------------------------------------------
(* Text helpers *)

Digits == <<"0", "1", "2", "3", "4", "5", "6", "7", "8", "9">>

\* a text of n characters whose characters differ by position
Txt(n) == [i \in 1..n |-> Digits[((i - 1) % 10) + 1]]

\* Python s[:n]
Take(s, n) == SubSeq(s, 1, IF Len(s) < n THEN Len(s) ELSE n)

Whitespace == {" ", "\t", "\n"}

RECURSIVE LStrip(_)
LStrip(s) == IF s # <<>> /\ Head(s) \in Whitespace THEN LStrip(Tail(s)) ELSE s

RECURSIVE RStrip(_)
RStrip(s) == IF s # <<>> /\ s[Len(s)] \in Whitespace THEN RStrip(SubSeq(s, 1, Len(s) - 1)) ELSE s

\* Python str.strip()
Strip(s) == RStrip(LStrip(s))

\* code points of the characters that occur in keys
Ord(c) == CASE c = "\t" -> 9 [] c = "\n" -> 10 [] c = " " -> 32 [] c = "A" -> 65 [] c = "B" -> 66 [] OTHER -> 48

\* Python str comparison a < b
RECURSIVE LexLess(_, _)
LexLess(a, b) ==
    IF b = <<>> THEN FALSE
    ELSE IF a = <<>> THEN TRUE
    ELSE IF Ord(Head(a)) # Ord(Head(b)) THEN Ord(Head(a)) < Ord(Head(b))
    ELSE LexLess(Tail(a), Tail(b))

\* Python sorted(S) for a set of strings
RECURSIVE Sorted(_)
Sorted(S) ==
    IF S = {} THEN <<>>
    ELSE LET m == CHOOSE x \in S : \A y \in S \ {x} : LexLess(x, y)
         IN <<m>> \o Sorted(S \ {m})

OKText == <<"O", "K">>

TimeoutText == <<"T", "i", "m", "e", "o", "u", "t">>

ClientErrorPrefix == <<"C", "l", "i", "e", "n", "t", "E", "r", "r", "o", "r", ":", " ">>

UnexpectedPrefix == <<"U", "n", "e", "x", "p", "e", "c", "t", "e", "d", ":", " ">>

----------------------------------------------------------------------------
(* test_key: one iteration of the retry loop, from the arrival of the      *)
(* outcome of session.post to the next suspension point or the return.     *)

\* an attempt's outcome: an HTTP response, or an exception raised in the try block
Http(code, text) == [kind |-> "http", code |-> code, text |-> text]

TimeoutErr == [kind |-> "timeout", code |-> 0, text |-> <<>>]

ClientErr(text) == [kind |-> "client", code |-> 0, text |-> text]

OtherErr(text) == [kind |-> "unexpected", code |-> 0, text |-> text]

NoResult == [key |-> <<>>, status |-> "none", http_status |-> 0, detail |-> <<>>]

Result(key, status, code, detail) == [key |-> key, status |-> status, http_status |-> code, detail |-> detail]

\* text[:500]
BodyDetailNoCut(text) == text

BodyDetail(text) == Take(text, DetailLimit)

\* f"ClientError: {str(e)[:300]}"
ClientDetail(text) == ClientErrorPrefix \o Take(text, ExcLimit)

\* f"Unexpected: {str(e)[:300]}"
UnexpectedDetail(text) == UnexpectedPrefix \o Take(text, ExcLimit)

\* attempt < MAX_RETRIES
CanRetryShort(n) == n < MAX_RETRIES - 1

CanRetryAlways(n) == n <= MAX_RETRIES

CanRetry(n) == n < MAX_RETRIES

\* code == 429 and attempt < MAX_RETRIES
RetryStatusWide(code, n) == code >= 429 /\ CanRetry(n)

RetryStatus(code, n) == code = 429 /\ CanRetry(n)

\* backoff *= BACKOFF_FACTOR
NextBackoffSame(b) == b

NextBackoff(b) == b * BACKOFF_FACTOR

Return(r) == [kind |-> "return", result |-> r, sleep |-> 0]

\* await asyncio.sleep(backoff): the probe suspends, backoff not yet changed
RetryGrowFirst(b) == [kind |-> "retry", result |-> NoResult, sleep |-> NextBackoff(b)]

Retry(b) == [kind |-> "retry", result |-> NoResult, sleep |-> b]

\* an exception that leaves test_key
Raise == [kind |-> "raise", result |-> NoResult, sleep |-> 0]

AttemptRaising(key, n, b, o) ==
    IF o.kind = "unexpected" THEN Raise
    ELSE IF o.kind = "http" /\ o.code >= 200 /\ o.code < 300 THEN Return(Result(key, "valid", o.code, OKText))
    ELSE IF CanRetry(n) /\ (o.kind # "http" \/ o.code = 429) THEN Retry(b)
    ELSE Return(Result(key, "error", IF o.kind = "http" THEN o.code ELSE -1, <<>>))

AttemptSentinelMixed(key, n, b, o) ==
    IF o.kind = "http" THEN
        IF 200 <= o.code /\ o.code < 300 THEN Return(Result(key, "valid", o.code, OKText))
        ELSE IF o.code \in {401, 403} THEN Return(Result(key, "invalid", o.code, BodyDetail(o.text)))
        ELSE IF o.code = 404 THEN Return(Result(key, "model_not_found", o.code, BodyDetail(o.text)))
        ELSE IF RetryStatus(o.code, n) THEN Retry(b)
        ELSE Return(Result(key, "error", o.code, BodyDetail(o.text)))
    ELSE IF o.kind = "timeout" THEN
        IF CanRetry(n) THEN Retry(b)
        ELSE Return(Result(key, "error", -1, TimeoutText))
    ELSE IF o.kind = "client" THEN
        IF CanRetry(n) THEN Retry(b)
        ELSE Return(Result(key, "error", -2, ClientDetail(o.text)))
    ELSE Return(Result(key, "error", -2, UnexpectedDetail(o.text)))

AttemptNo403(key, n, b, o) ==
    IF o.kind = "http" THEN
        IF 200 <= o.code /\ o.code < 300 THEN Return(Result(key, "valid", o.code, OKText))
        ELSE IF o.code = 401 THEN Return(Result(key, "invalid", o.code, BodyDetail(o.text)))
        ELSE IF o.code = 404 THEN Return(Result(key, "model_not_found", o.code, BodyDetail(o.text)))
        ELSE IF RetryStatus(o.code, n) THEN Retry(b)
        ELSE Return(Result(key, "error", o.code, BodyDetail(o.text)))
    ELSE IF o.kind = "timeout" THEN
        IF CanRetry(n) THEN Retry(b)
        ELSE Return(Result(key, "error", -1, TimeoutText))
    ELSE IF o.kind = "client" THEN
        IF CanRetry(n) THEN Retry(b)
        ELSE Return(Result(key, "error", -1, ClientDetail(o.text)))
    ELSE Return(Result(key, "error", -2, UnexpectedDetail(o.text)))

AttemptRetryUnexpected(key, n, b, o) ==
    IF o.kind = "http" THEN
        IF 200 <= o.code /\ o.code < 300 THEN Return(Result(key, "valid", o.code, OKText))
        ELSE IF o.code \in {401, 403} THEN Return(Result(key, "invalid", o.code, BodyDetail(o.text)))
        ELSE IF o.code = 404 THEN Return(Result(key, "model_not_found", o.code, BodyDetail(o.text)))
        ELSE IF RetryStatus(o.code, n) THEN Retry(b)
        ELSE Return(Result(key, "error", o.code, BodyDetail(o.text)))
    ELSE IF o.kind = "timeout" THEN
        IF CanRetry(n) THEN Retry(b)
        ELSE Return(Result(key, "error", -1, TimeoutText))
    ELSE IF o.kind = "client" THEN
        IF CanRetry(n) THEN Retry(b)
        ELSE Return(Result(key, "error", -1, ClientDetail(o.text)))
    ELSE IF CanRetry(n) THEN Retry(b)
    ELSE Return(Result(key, "error", -2, UnexpectedDetail(o.text)))

Attempt(key, n, b, o) ==
    IF o.kind = "http" THEN
        IF 200 <= o.code /\ o.code < 300 THEN Return(Result(key, "valid", o.code, OKText))
        ELSE IF o.code \in {401, 403} THEN Return(Result(key, "invalid", o.code, BodyDetail(o.text)))
        ELSE IF o.code = 404 THEN Return(Result(key, "model_not_found", o.code, BodyDetail(o.text)))
        ELSE IF RetryStatus(o.code, n) THEN Retry(b)
        ELSE Return(Result(key, "error", o.code, BodyDetail(o.text)))
    ELSE IF o.kind = "timeout" THEN
        IF CanRetry(n) THEN Retry(b)
        ELSE Return(Result(key, "error", -1, TimeoutText))
    ELSE IF o.kind = "client" THEN
        IF CanRetry(n) THEN Retry(b)
        ELSE Return(Result(key, "error", -1, ClientDetail(o.text)))
    ELSE Return(Result(key, "error", -2, UnexpectedDetail(o.text)))

----------------------------------------------------------------------------
(* Inputs *)

\* response bodies and exception messages seen by an isolated probe
Bodies == {Txt(2), Txt(500), Txt(501)}

ExcTexts == {Txt(4), Txt(301), Txt(501)}

Codes == {100, 200, 204, 302, 400, 401, 403, 404, 429, 500}

Outcomes ==
    {Http(c, t) : c \in Codes, t \in Bodies} \cup {TimeoutErr}
    \cup {ClientErr(t) : t \in ExcTexts} \cup {OtherErr(t) : t \in ExcTexts}

\* outcomes seen by the probes of a whole run
RunOutcomes ==
    {Http(c, Txt(2)) : c \in {200, 401, 404, 429, 500}}
    \cup {TimeoutErr, ClientErr(Txt(4)), OtherErr(Txt(4))}

KeyA == <<"A">>

KeyB == <<"B">>

\* lines of the input file: blank, a key, the same key padded, another key
LineSet == {<<" ">>, KeyA, <<" ", "A", "\n">>, KeyB}

RECURSIVE SeqsUpTo(_, _)
SeqsUpTo(S, n) ==
    IF n = 0 THEN {<<>>}
    ELSE LET shorter == SeqsUpTo(S, n - 1)
         IN shorter \cup {Append(s, x) : s \in {t \in shorter : Len(t) = n - 1}, x \in S}

----------------------------------------------------------------------------
(* An isolated probe: test_key called once, its transport answering each   *)
(* attempt with any outcome.  p_requests counts the session.post calls,    *)
(* p_sleeps lists the asyncio.sleep arguments, p_hist the outcomes.        *)

RunIdle ==
    /\ lines = <<>> /\ concurrency = 1 /\ mpc = "idle" /\ keys = <<>> /\ total = 0
    /\ pc = <<>> /\ attempt = <<>> /\ backoff = <<>>
    /\ sem = 0 /\ waiters = <<>> /\ woken = {}
    /\ results = <<>> /\ success_set = {} /\ progress = <<>>
    /\ csv = [written |-> FALSE, rows |-> <<>>]
    /\ success_file = [written |-> FALSE, rows |-> <<>>]
    /\ summary = [printed |-> FALSE, total |-> 0, valid |-> 0, invalid |-> 0, model_not_found |-> 0, error |-> 0]

ProbeIdle ==
    /\ p_pc = "idle" /\ p_key = <<>> /\ p_attempt = 0 /\ p_backoff = 0
    /\ p_requests = 0 /\ p_sleeps = <<>> /\ p_hist = <<>> /\ p_result = NoResult
    /\ p_trace = <<>>

InitProbe ==
    /\ RunIdle
    /\ p_pc = "call" /\ p_key \in {KeyA, KeyB} /\ p_attempt = 0 /\ p_backoff = 0
    /\ p_requests = 0 /\ p_sleeps = <<>> /\ p_hist = <<>> /\ p_result = NoResult
    /\ p_trace = <<>>

\* backoff = INITIAL_BACKOFF; first iteration of the loop issues session.post
ProbeCall ==
    /\ p_pc = "call"
    /\ p_backoff' = INITIAL_BACKOFF
    /\ p_attempt' = 1
    /\ p_requests' = p_requests + 1
    /\ p_pc' = "inflight"
    /\ p_trace' = Append(p_trace, "post")
    /\ UNCHANGED <<p_key, p_sleeps, p_hist, p_result>>
    /\ UNCHANGED runVars

\* the outcome of the outstanding request arrives; a sleep that is not
\* awaited lets the loop issue the next request at once
ProbeRespondNoAwait(o) ==
    /\ p_pc = "inflight"
    /\ LET a == Attempt(p_key, p_attempt, p_backoff, o)
       IN /\ p_hist' = Append(p_hist, o)
          /\ IF a.kind = "return"
             THEN /\ p_result' = a.result
                  /\ p_pc' = "returned"
                  /\ p_trace' = p_trace \o <<"resp", "return">>
                  /\ UNCHANGED <<p_sleeps, p_backoff, p_attempt, p_requests>>
             ELSE /\ p_sleeps' = Append(p_sleeps, a.sleep)
                  /\ p_backoff' = NextBackoff(p_backoff)
                  /\ p_attempt' = p_attempt + 1
                  /\ p_requests' = p_requests + 1
                  /\ p_pc' = "inflight"
                  /\ p_trace' = p_trace \o <<"resp", "sleep", "post">>
                  /\ UNCHANGED p_result
    /\ UNCHANGED p_key
    /\ UNCHANGED runVars

\* the outcome of the outstanding request arrives
ProbeRespond(o) ==
    /\ p_pc = "inflight"
    /\ LET a == Attempt(p_key, p_attempt, p_backoff, o)
       IN /\ p_hist' = Append(p_hist, o)
          /\ IF a.kind = "return"
             THEN /\ p_result' = a.result
                  /\ p_pc' = "returned"
                  /\ p_trace' = p_trace \o <<"resp", "return">>
                  /\ UNCHANGED <<p_sleeps, p_backoff>>
             ELSE IF a.kind = "retry"
             THEN /\ p_sleeps' = Append(p_sleeps, a.sleep)
                  /\ p_pc' = "sleeping"
                  /\ p_trace' = p_trace \o <<"resp", "sleep">>
                  /\ UNCHANGED <<p_result, p_backoff>>
             ELSE /\ p_pc' = "raised"
                  /\ p_trace' = p_trace \o <<"resp", "raise">>
                  /\ UNCHANGED <<p_sleeps, p_backoff, p_result>>
    /\ UNCHANGED <<p_key, p_attempt, p_requests>>
    /\ UNCHANGED runVars

\* asyncio.sleep returns; backoff *= BACKOFF_FACTOR; continue: next value
\* of range(1, MAX_RETRIES + 1)
ProbeSleepDone ==
    /\ p_pc = "sleeping"
    /\ p_backoff' = NextBackoff(p_backoff)
    /\ IF p_attempt < MAX_RETRIES
       THEN /\ p_attempt' = p_attempt + 1
            /\ p_requests' = p_requests + 1
            /\ p_pc' = "inflight"
            /\ p_trace' = p_trace \o <<"wake", "post">>
       ELSE /\ p_pc' = "returned_none"
            /\ p_trace' = p_trace \o <<"wake", "none">>
            /\ UNCHANGED <<p_attempt, p_requests>>
    /\ UNCHANGED <<p_key, p_sleeps, p_hist, p_result>>
    /\ UNCHANGED runVars

NextProbe ==
    \/ ProbeCall
    \/ \E o \in Outcomes : ProbeRespond(o)
    \/ ProbeSleepDone

SpecProbe == InitProbe /\ [][NextProbe]_vars

----------------------------------------------------------------------------
(* The whole run: main_async, one worker task per key, the semaphore.      *)

\* keys = [line.strip() for line in f if line.strip()]
ReadKeysDedup(ls) ==
    LET all == SelectSeq([i \in DOMAIN ls |-> Strip(ls[i])], LAMBDA k : k # <<>>)
    IN SelectSeq([i \in DOMAIN all |-> IF \E j \in 1..(i - 1) : all[j] = all[i] THEN <<>> ELSE all[i]], LAMBDA k : k # <<>>)

ReadKeys(ls) == SelectSeq([i \in DOMAIN ls |-> Strip(ls[i])], LAMBDA k : k # <<>>)

\* if total == 0
NoKeysNever(n) == FALSE

NoKeys(n) == n = 0

\* asyncio.Semaphore._wake_up_next(): the first queued task whose future is
\* not done takes the slot (_value -= 1) and is marked runnable
WakeUpNext(value, queue, wk) ==
    LET cand == {j \in DOMAIN queue : queue[j] \notin wk}
    IN IF cand = {}
       THEN [value |-> value, woken |-> wk]
       ELSE [value |-> value - 1, woken |-> wk \cup {queue[CHOOSE j \in cand : \A k \in cand : j <= k]}]

\* asyncio.Semaphore.release() on leaving async with semaphore:
\* _value += 1, then _wake_up_next()
ReleaseLeak(value, queue, wk) == [value |-> value, woken |-> wk]

ReleaseKeepsSlot(value, queue, wk) == [value |-> value + 1, woken |-> WakeUpNext(value + 1, queue, wk).woken]

Release(value, queue, wk) == WakeUpNext(value + 1, queue, wk)

\* asyncio.Semaphore.locked(): no free slot, or tasks already queued
SemLockedNever(value, queue) == FALSE

SemLocked(value, queue) == value = 0 \/ queue # <<>>

\* results.append(r)
RecordResultOnce(rs, r) == IF \E j \in DOMAIN rs : rs[j].key = r.key THEN rs ELSE Append(rs, r)

RecordResult(rs, r) == Append(rs, r)

\* if r["status"] == "valid": success_set.add(key)
SuccessAddAlways(set, key, r) == set \cup {key}

SuccessAdd(set, key, r) == IF r.status = "valid" THEN set \cup {key} ELSE set

\* await asyncio.gather(*tasks) returns
GatherDoneAny(p) == \E i \in DOMAIN p : p[i] = "done"

GatherDone(p) == \A i \in DOMAIN p : p[i] = "done"

Count(rs, st) == Cardinality({j \in DOMAIN rs : rs[j].status = st})

Init ==
    /\ lines \in SeqsUpTo(LineSet, MaxLines)
    /\ concurrency \in 1..MaxConc
    /\ mpc = "start" /\ keys = <<>> /\ total = 0
    /\ pc = <<>> /\ attempt = <<>> /\ backoff = <<>>
    /\ sem = 0 /\ waiters = <<>> /\ woken = {}
    /\ results = <<>> /\ success_set = {} /\ progress = <<>>
    /\ csv = [written |-> FALSE, rows |-> <<>>]
    /\ success_file = [written |-> FALSE, rows |-> <<>>]
    /\ summary = [printed |-> FALSE, total |-> 0, valid |-> 0, invalid |-> 0, model_not_found |-> 0, error |-> 0]
    /\ ProbeIdle

\* main_async up to the await of gather: read the keys, return when there
\* are none, else create the semaphore, the session and one task per key
MainStart ==
    /\ mpc = "start"
    /\ LET ks == ReadKeys(lines)
       IN /\ keys' = ks
          /\ total' = Len(ks)
          /\ IF NoKeys(Len(ks))
             THEN /\ mpc' = "empty"
                  /\ UNCHANGED <<pc, attempt, backoff, sem>>
             ELSE /\ mpc' = "gather"
                  /\ sem' = concurrency
                  /\ pc' = [i \in 1..Len(ks) |-> "created"]
                  /\ attempt' = [i \in 1..Len(ks) |-> 0]
                  /\ backoff' = [i \in 1..Len(ks) |-> 0]
    /\ UNCHANGED <<lines, concurrency, waiters, woken, results, success_set, progress, csv, success_file, summary>>
    /\ UNCHANGED probeVars

\* test_key entered: backoff = INITIAL_BACKOFF, attempt 1, session.post issued
EnterProbe(i) ==
    /\ pc' = [pc EXCEPT ![i] = "inflight"]
    /\ attempt' = [attempt EXCEPT ![i] = 1]
    /\ backoff' = [backoff EXCEPT ![i] = INITIAL_BACKOFF]

\* first step of worker i (tasks get their first step in creation order):
\* async with semaphore either enters at once or queues the task
StartWorker(i) ==
    /\ mpc = "gather"
    /\ pc[i] = "created"
    /\ \A j \in 1..(i - 1) : pc[j] # "created"
    /\ IF SemLocked(sem, waiters)
       THEN /\ pc' = [pc EXCEPT ![i] = "waiting"]
            /\ waiters' = Append(waiters, i)
            /\ UNCHANGED <<sem, attempt, backoff>>
       ELSE /\ sem' = sem - 1
            /\ EnterProbe(i)
            /\ UNCHANGED waiters
    /\ UNCHANGED <<lines, concurrency, mpc, keys, total, woken, results, success_set, progress, csv, success_file, summary>>
    /\ UNCHANGED probeVars

\* a queued task that release() marked runnable resumes in acquire(): it
\* leaves the queue, passes a still free slot on to the next queued task,
\* and enters test_key with the slot release() took for it
WakeUp(i) ==
    /\ mpc = "gather"
    /\ pc[i] = "waiting"
    /\ waiters # <<>> /\ Head(waiters) = i
    /\ i \in woken
    /\ waiters' = Tail(waiters)
    /\ IF sem > 0
       THEN /\ sem' = WakeUpNext(sem, Tail(waiters), woken \ {i}).value
            /\ woken' = WakeUpNext(sem, Tail(waiters), woken \ {i}).woken
       ELSE /\ sem' = sem
            /\ woken' = woken \ {i}
    /\ EnterProbe(i)
    /\ UNCHANGED <<lines, concurrency, mpc, keys, total, results, success_set, progress, csv, success_file, summary>>
    /\ UNCHANGED probeVars

\* the outcome of worker i's request arrives: test_key either returns, and
\* the worker records the result, prints and leaves the semaphore, or sleeps
Respond(i, o) ==
    /\ mpc = "gather"
    /\ pc[i] = "inflight"
    /\ LET a == Attempt(keys[i], attempt[i], backoff[i], o)
       IN IF a.kind = "return"
          THEN /\ results' = RecordResult(results, a.result)
               /\ success_set' = SuccessAdd(success_set, keys[i], a.result)
               /\ progress' = Append(progress, i)
               /\ sem' = Release(sem, waiters, woken).value
               /\ woken' = Release(sem, waiters, woken).woken
               /\ pc' = [pc EXCEPT ![i] = "done"]
               /\ UNCHANGED mpc
          ELSE IF a.kind = "retry"
          THEN /\ pc' = [pc EXCEPT ![i] = "sleeping"]
               /\ UNCHANGED <<results, success_set, progress, sem, woken, mpc>>
          ELSE \* the exception leaves worker, releases the slot and reaches gather
               /\ pc' = [pc EXCEPT ![i] = "failed"]
               /\ sem' = Release(sem, waiters, woken).value
               /\ woken' = Release(sem, waiters, woken).woken
               /\ mpc' = "aborted"
               /\ UNCHANGED <<results, success_set, progress>>
    /\ UNCHANGED <<lines, concurrency, keys, total, attempt, backoff, waiters, csv, success_file, summary>>
    /\ UNCHANGED probeVars

\* worker i's backoff sleep ends: backoff *= BACKOFF_FACTOR, then the next
\* iteration of the loop issues the next request; past the last iteration
\* test_key returns None and worker fails
SleepDone(i) ==
    /\ mpc = "gather"
    /\ pc[i] = "sleeping"
    /\ backoff' = [backoff EXCEPT ![i] = NextBackoff(backoff[i])]
    /\ IF attempt[i] < MAX_RETRIES
       THEN /\ attempt' = [attempt EXCEPT ![i] = attempt[i] + 1]
            /\ pc' = [pc EXCEPT ![i] = "inflight"]
            /\ UNCHANGED <<sem, woken, mpc>>
       ELSE /\ pc' = [pc EXCEPT ![i] = "failed"]
            /\ sem' = Release(sem, waiters, woken).value
            /\ woken' = Release(sem, waiters, woken).woken
            /\ mpc' = "aborted"
            /\ UNCHANGED attempt
    /\ UNCHANGED <<lines, concurrency, keys, total, waiters, results, success_set, progress, csv, success_file, summary>>
    /\ UNCHANGED probeVars

\* gather returns, the session closes, results.csv is written
WriteResults ==
    /\ mpc = "gather"
    /\ GatherDone(pc)
    /\ csv' = [written |-> TRUE, rows |-> [j \in DOMAIN results |-> <<results[j].key, results[j].status, results[j].http_status, results[j].detail>>]]
    /\ mpc' = "csv_written"
    /\ UNCHANGED <<lines, concurrency, keys, total, pc, attempt, backoff, sem, waiters, woken, results, success_set, progress, success_file, summary>>
    /\ UNCHANGED probeVars

\* success.txt is written when success_set is not empty
WriteSuccess ==
    /\ mpc = "csv_written"
    /\ IF success_set # {}
       THEN success_file' = [written |-> TRUE, rows |-> Sorted(success_set)]
       ELSE UNCHANGED success_file
    /\ mpc' = "success_written"
    /\ UNCHANGED <<lines, concurrency, keys, total, pc, attempt, backoff, sem, waiters, woken, results, success_set, progress, csv, summary>>
    /\ UNCHANGED probeVars

\* the summary line
PrintSummary ==
    /\ mpc = "success_written"
    /\ LET valid == Cardinality(success_set)
           invalid == Count(results, "invalid")
           mnf == Count(results, "model_not_found")
       IN summary' = [printed |-> TRUE, total |-> total, valid |-> valid, invalid |-> invalid, model_not_found |-> mnf, error |-> total - valid - invalid - mnf]
    /\ mpc' = "done"
    /\ UNCHANGED <<lines, concurrency, keys, total, pc, attempt, backoff, sem, waiters, woken, results, success_set, progress, csv, success_file>>
    /\ UNCHANGED probeVars

Next ==
    \/ MainStart
    \/ \E i \in DOMAIN pc : StartWorker(i)
    \/ \E i \in DOMAIN pc : WakeUp(i)
    \/ \E i \in DOMAIN pc, o \in RunOutcomes : Respond(i, o)
    \/ \E i \in DOMAIN pc : SleepDone(i)
    \/ WriteResults
    \/ WriteSuccess
    \/ PrintSummary

Spec == Init /\ [][Next]_vars

\* the event loop runs every ready task and every attempt eventually ends
\* (input files without the padded copy of a key, whose runs repeat those of
\* the key itself)
FairLineSet == {<<" ">>, KeyA, KeyB}

InitFair == Init /\ lines \in SeqsUpTo(FairLineSet, MaxLines)

FairSpec == InitFair /\ [][Next]_vars /\ WF_vars(Next)

----------------------------------------------------------------------------
(* Properties *)

InFlight == {i \in DOMAIN pc : pc[i] = "inflight"}

Last(s) == s[Len(s)]

Occurrences(s, x) == Cardinality({j \in DOMAIN s : s[j] = x})

ResultsWithKey(k) == Cardinality({j \in DOMAIN results : results[j].key = k})

LinesWithKey(k) == Cardinality({i \in DOMAIN lines : Strip(lines[i]) = k})

\* d is the first n characters of s, or all of s when s is shorter
IsCut(d, s, n) ==
    /\ Len(d) = (IF Len(s) > n THEN n ELSE Len(s))
    /\ \A i \in 1..Len(d) : d[i] = s[i]

All429 == \A j \in DOMAIN p_hist : p_hist[j].kind = "http" /\ p_hist[j].code = 429

AllTimeout == \A j \in DOMAIN p_hist : p_hist[j].kind = "timeout"

\* C1: the number of requests outstanding at the same time never exceeds
\* the concurrency the run was started with.
C1_ConcurrencyCeiling == Cardinality(InFlight) <= concurrency

C1_Witness == Cardinality(InFlight) = concurrency /\ waiters # <<>>

\* C2: at normal completion the results list has one entry per non-blank
\* input line, and every task index has reported exactly once with a
\* result carrying its key.
C2_OneResultPerLine ==
    mpc = "done" =>
        /\ Len(results) = Cardinality({i \in DOMAIN lines : Strip(lines[i]) # <<>>})
        /\ Len(progress) = Len(results)
        /\ \A i \in 1..total : Occurrences(progress, i) = 1
        /\ \A j \in DOMAIN results : results[j].key = keys[progress[j]]

C2_Witness ==
    /\ mpc = "done"
    /\ Len(results) >= 1 /\ Len(results) < Len(lines)
    /\ results[1].http_status = 429

\* C3 as stated: at normal completion every credential text of the input is
\* the key of exactly one result.
C3_Original == mpc = "done" => \A i \in DOMAIN keys : ResultsWithKey(keys[i]) = 1

\* C3 amended: at normal completion every credential text is the key of as
\* many results as there are input lines carrying it; none is dropped and
\* none gains a result through retries.
C3_ResultsPerText ==
    mpc = "done" =>
        /\ \A i \in DOMAIN lines : Strip(lines[i]) # <<>> => ResultsWithKey(Strip(lines[i])) = LinesWithKey(Strip(lines[i]))
        /\ \A j \in DOMAIN results : LinesWithKey(results[j].key) >= 1

C3_Witness ==
    /\ mpc = "done"
    /\ Len(results) = 2
    /\ results[1].key = results[2].key
    /\ results[1].status # results[2].status

\* C4: success_set is at all times the set of keys that have a valid result
\* in the results list.
C4_SuccessSetIsValidKeys == success_set = {results[j].key : j \in {k \in DOMAIN results : results[k].status = "valid"}}

C4_Witness ==
    /\ mpc = "gather"
    /\ success_set # {}
    /\ Len(results) = 1
    /\ \E i \in DOMAIN pc : pc[i] = "sleeping"

\* C5: a probe answered 429 at every attempt makes MAX_RETRIES requests,
\* sleeps 1 then 2, and returns error / 429 / the cut last body.
C5_Always429 ==
    (p_pc \in {"returned", "returned_none", "raised"} /\ All429) =>
        /\ p_pc = "returned"
        /\ p_requests = MAX_RETRIES
        /\ Len(p_hist) = MAX_RETRIES
        /\ p_sleeps = <<1, 2>>
        /\ Len(p_sleeps) = MAX_RETRIES - 1
        /\ p_result.key = p_key
        /\ p_result.status = "error"
        /\ p_result.http_status = 429
        /\ IsCut(p_result.detail, Last(p_hist).text, 500)

C5_Witness ==
    /\ p_pc = "returned" /\ All429
    /\ Len(Last(p_hist).text) = 501
    /\ Len(p_result.detail) = 500

\* C6: a probe whose attempts all time out returns only after MAX_RETRIES
\* attempts, with error / -1 / "Timeout".
C6_AlwaysTimeout ==
    (p_pc \in {"returned", "returned_none", "raised"} /\ AllTimeout) =>
        /\ p_pc = "returned"
        /\ p_requests = MAX_RETRIES
        /\ Len(p_hist) = MAX_RETRIES
        /\ p_result = [key |-> p_key, status |-> "error", http_status |-> -1, detail |-> <<"T", "i", "m", "e", "o", "u", "t">>]

C6_Witness == p_pc = "returned" /\ AllTimeout /\ Len(p_hist) = 3

\* C7: a response with a status other than 429 ends the probe at that
\* attempt: it is the last outcome, no request and no sleep follow it, and
\* 401 at the first attempt gives invalid after one request and no sleep.
C7_NonRetryableReturnsAtOnce ==
    /\ \A j \in DOMAIN p_hist :
         (p_hist[j].kind = "http" /\ p_hist[j].code # 429) =>
            /\ j = Len(p_hist)
            /\ p_pc = "returned"
            /\ p_requests = j
            /\ Len(p_sleeps) = j - 1
            /\ p_result.http_status = p_hist[j].code
    /\ (p_hist # <<>> /\ p_hist[1].kind = "http" /\ p_hist[1].code = 401) =>
            /\ p_result.status = "invalid"
            /\ p_requests = 1
            /\ p_sleeps = <<>>

C7_Witness ==
    /\ p_pc = "returned"
    /\ Len(p_hist) = 2
    /\ p_hist[2].kind = "http" /\ p_hist[2].code = 500
    /\ p_requests = 2 /\ p_sleeps = <<1>>

\* the outcome whose text becomes the detail of the returned result
DetailFromText(o) ==
    \/ o.kind = "http" /\ ~(200 <= o.code /\ o.code < 300)
    \/ o.kind \in {"client", "unexpected"}

\* C8 as stated: a returned detail whose source text is longer than 500
\* characters has exactly 500 characters, in the status branches and in the
\* exception branches alike.
C8_Original ==
    (p_pc = "returned" /\ DetailFromText(Last(p_hist)) /\ Len(Last(p_hist).text) > 500) =>
        Len(p_result.detail) = 500

\* C8 amended: a body longer than 500 characters is stored as its first 500
\* characters (invalid, model_not_found, error by status); an exception
\* text longer than 300 characters is stored as its first 300 characters
\* after the prefix "ClientError: " or "Unexpected: ", 313 or 312 characters.
C8_DetailCut ==
    p_pc = "returned" =>
        LET o == Last(p_hist)
            d == p_result.detail
        IN /\ (o.kind = "http" /\ ~(200 <= o.code /\ o.code < 300)) =>
                 /\ IsCut(d, o.text, 500)
                 /\ Len(o.text) > 500 => Len(d) = 500
           /\ o.kind = "client" =>
                 /\ IsCut(SubSeq(d, 14, Len(d)), o.text, 300)
                 /\ SubSeq(d, 1, 13) = <<"C", "l", "i", "e", "n", "t", "E", "r", "r", "o", "r", ":", " ">>
                 /\ Len(o.text) > 300 => Len(d) = 313
           /\ o.kind = "unexpected" =>
                 /\ IsCut(SubSeq(d, 13, Len(d)), o.text, 300)
                 /\ SubSeq(d, 1, 12) = <<"U", "n", "e", "x", "p", "e", "c", "t", "e", "d", ":", " ">>
                 /\ Len(o.text) > 300 => Len(d) = 312

C8_Witness ==
    /\ p_pc = "returned"
    /\ Last(p_hist).kind = "client"
    /\ Len(Last(p_hist).text) = 501
    /\ Len(p_result.detail) = 313

\* C9: no outcome of an attempt makes a task fail or the run abort, the
\* run is never stuck while gathering, and at completion every task has
\* recorded its result.
C9_FailuresAbsorbed ==
    /\ mpc # "aborted"
    /\ \A i \in DOMAIN pc : pc[i] # "failed"
    /\ mpc = "gather" =>
          \/ \A i \in DOMAIN pc : pc[i] = "done"
          \/ \E i \in DOMAIN pc : pc[i] \in {"created", "inflight", "sleeping"}
          \/ \E i \in woken : pc[i] = "waiting" /\ Head(waiters) = i
    /\ mpc = "done" => \A i \in 1..total : Occurrences(progress, i) = 1

C9_Witness ==
    /\ mpc = "done"
    /\ \E j \in DOMAIN results : results[j].http_status = -2
    /\ \E j \in DOMAIN results : results[j].http_status = -1
    /\ Len(results) = 2

\* C10: results.csv and success.txt are written only when every task is
\* done, and the report then holds one row per key.
C10_ReportAfterAllTasks ==
    (csv.written \/ success_file.written) =>
        /\ \A i \in DOMAIN pc : pc[i] = "done"
        /\ Len(csv.rows) = total
        /\ \A j \in DOMAIN csv.rows : csv.rows[j][1] = results[j].key /\ csv.rows[j][2] = results[j].status

C10_Witness ==
    /\ mpc = "csv_written"
    /\ csv.written
    /\ Len(csv.rows) = 2
    /\ concurrency = 1

\* C11 as stated: a task occupies a slot of the semaphore only while one of
\* its requests is in flight, so the slots taken are as many as the
\* requests in flight and none is held by a sleeping task.
C11_SlotOnlyInFlight == mpc = "gather" => concurrency - sem = Cardinality(InFlight) + Cardinality(woken)

\* C11 amended: a task occupies a slot from its admission until its probe
\* has returned and its result is recorded, backoff sleeps included, so a
\* task waiting at the gate gets a slot only when an earlier task has fully
\* finished: every slot not free is held by a task in flight or sleeping, or
\* was given up by a finished task to a task still waiting at the gate, and
\* the tasks queued at the gate are exactly the waiting ones.
C11_SlotHeldThroughProbe ==
    mpc = "gather" =>
        /\ concurrency - sem = Cardinality({i \in DOMAIN pc : pc[i] \in {"inflight", "sleeping"}}) + Cardinality(woken)
        /\ sem >= 0
        /\ woken \subseteq {i \in DOMAIN pc : pc[i] = "waiting"}
        /\ Cardinality(woken) <= Cardinality({i \in DOMAIN pc : pc[i] = "done"})
        /\ {waiters[j] : j \in DOMAIN waiters} = {i \in DOMAIN pc : pc[i] = "waiting"}

C11_Witness ==
    /\ mpc = "gather"
    /\ concurrency = 1
    /\ pc = <<"sleeping", "waiting">>
    /\ sem = 0
    /\ waiters = <<2>>
    /\ woken = {}

\* C12: the result of a probe ended by an HTTP response is a function of
\* the status code: 2xx valid with detail "OK", 401 and 403 invalid, 404
\* model_not_found, anything else error; otherwise detail is the cut body,
\* and http_status is the code received.
C12_ClassificationByStatus ==
    (p_pc = "returned" /\ Last(p_hist).kind = "http") =>
        LET c == Last(p_hist).code
            t == Last(p_hist).text
        IN /\ p_result.http_status = c
           /\ p_result.key = p_key
           /\ p_result.status = (IF c >= 200 /\ c <= 299 THEN "valid"
                                 ELSE IF c = 401 \/ c = 403 THEN "invalid"
                                 ELSE IF c = 404 THEN "model_not_found"
                                 ELSE "error")
           /\ IF c >= 200 /\ c <= 299
              THEN p_result.detail = <<"O", "K">>
              ELSE IsCut(p_result.detail, t, 500)

C12_Witness ==
    /\ p_pc = "returned"
    /\ Len(p_hist) = 2
    /\ Last(p_hist).kind = "http" /\ Last(p_hist).code = 400
    /\ Len(Last(p_hist).text) = 501
    /\ p_result.status = "error"

\* C13: with no non-blank line in the input main_async returns at once:
\* no task, no request, no result, no file written, no summary.
C13_EmptyInputShortCircuits ==
    (mpc \notin {"idle", "start"} /\ \A i \in DOMAIN lines : Strip(lines[i]) = <<>>) =>
        /\ mpc = "empty"
        /\ pc = <<>>
        /\ results = <<>>
        /\ progress = <<>>
        /\ ~csv.written
        /\ ~success_file.written
        /\ ~summary.printed

C13_Witness == mpc = "empty" /\ Len(lines) = 2

Retryable(o) == o.kind \in {"timeout", "client"} \/ (o.kind = "http" /\ o.code = 429)

\* C14: an attempt before the last that ends in 429, a timeout or a client
\* error is followed by a sleep and then by the next attempt; the k-th
\* sleep lasts 1 * 2^(k-1) whatever the mix; nothing else causes a sleep
\* or a further attempt.
C14_BackoffSchedule ==
    /\ \A j \in DOMAIN p_hist :
         (j < MAX_RETRIES /\ Retryable(p_hist[j])) =>
            /\ Len(p_sleeps) >= j
            /\ \/ (j = Len(p_hist) /\ p_pc = "sleeping" /\ p_requests = j)
               \/ p_requests >= j + 1
    /\ \A k \in DOMAIN p_sleeps :
         /\ p_sleeps[k] = 1 * 2 ^ (k - 1)
         /\ k < MAX_RETRIES
         /\ Retryable(p_hist[k])
    /\ \A j \in 1..(p_requests - 1) : Retryable(p_hist[j])
    /\ Len(p_sleeps) \in {p_requests - 1, p_requests}

C14_Witness ==
    /\ Len(p_hist) = 3
    /\ p_hist[1].kind = "client"
    /\ p_hist[2].kind = "http" /\ p_hist[2].code = 429
    /\ p_sleeps = <<1, 2>>
    /\ p_requests = 3

EventsBefore(j, e) == Cardinality({i \in 1..(j - 1) : p_trace[i] = e})

\* C15: every request after the first directly follows the end of the
\* sleep started after the previous response, a request is issued only when
\* all earlier ones were answered, and the return directly follows the last
\* response with no sleep between.
C15_OrderedNoTrailingDelay ==
    /\ \A j \in DOMAIN p_trace :
         /\ (p_trace[j] = "post" /\ j > 1) =>
               /\ p_trace[j - 1] = "wake"
               /\ p_trace[j - 2] = "sleep"
               /\ p_trace[j - 3] = "resp"
               /\ EventsBefore(j, "post") = EventsBefore(j, "resp")
         /\ p_trace[j] = "return" => (p_trace[j - 1] = "resp" /\ j = Len(p_trace))
         /\ p_trace[j] = "sleep" => (j < Len(p_trace) => p_trace[j + 1] = "wake" /\ p_trace[j + 2] = "post")
    /\ p_pc \in {"returned", "returned_none", "raised"} =>
         /\ Last(p_trace) = "return"
         /\ Len(p_sleeps) = p_requests - 1

C15_Witness ==
    /\ p_pc = "returned"
    /\ p_trace = <<"post", "resp", "sleep", "wake", "post", "resp", "sleep", "wake", "post", "resp", "return">>

\* C16: an unexpected exception ends the probe at the attempt it occurs in,
\* with error / -2 / "Unexpected: ..." and no sleep after it; a client error
\* is retried before the last attempt and gives error / -1 only on the last.
C16_UnexpectedVsClientError ==
    \A j \in DOMAIN p_hist :
        /\ p_hist[j].kind = "unexpected" =>
              /\ j = Len(p_hist)
              /\ p_pc = "returned"
              /\ p_requests = j
              /\ Len(p_sleeps) = j - 1
              /\ p_result.status = "error"
              /\ p_result.http_status = -2
              /\ SubSeq(p_result.detail, 1, 12) = <<"U", "n", "e", "x", "p", "e", "c", "t", "e", "d", ":", " ">>
        /\ p_hist[j].kind = "client" =>
              IF j < MAX_RETRIES
              THEN Len(p_sleeps) >= j /\ ~(p_pc = "returned" /\ j = Len(p_hist))
              ELSE /\ p_pc = "returned"
                   /\ p_result.status = "error"
                   /\ p_result.http_status = -1

C16_Witness ==
    /\ p_pc = "returned"
    /\ Len(p_hist) = 2
    /\ p_hist[1].kind = "client"
    /\ p_hist[2].kind = "unexpected"
    /\ p_requests = 2

HttpAttempts == {j \in DOMAIN p_hist : p_hist[j].kind = "http"}

\* C17 as stated: http_status is the last status code observed over all the
\* attempts of the probe, and negative only when no attempt got a response.
C17_Original ==
    p_pc = "returned" =>
        IF HttpAttempts = {}
        THEN p_result.http_status \in {-1, -2}
        ELSE p_result.http_status = p_hist[CHOOSE j \in HttpAttempts : \A k \in HttpAttempts : k <= j].code

\* C17 amended: http_status describes the final attempt only: its status
\* code when it got a response, -1 when it ended in a timeout or a client
\* error, -2 when it ended in an unexpected exception, whatever statuses
\* earlier attempts observed.
C17_StatusOfFinalAttempt ==
    p_pc = "returned" =>
        LET o == Last(p_hist)
        IN p_result.http_status = (IF o.kind = "http" THEN o.code
                                   ELSE IF o.kind = "unexpected" THEN -2
                                   ELSE -1)

C17_Witness ==
    /\ p_pc = "returned"
    /\ p_hist[1].kind = "http" /\ p_hist[1].code = 429
    /\ Last(p_hist).kind = "client"
    /\ p_result.http_status = -1

\* C18: whatever the outcomes, a probe makes between 1 and MAX_RETRIES
\* requests and at most MAX_RETRIES - 1 sleeps, never leaves by an
\* exception or by falling off the loop, and returns one of the four
\* statuses.
C18_BoundedAndReturns ==
    /\ p_pc \in {"idle", "call", "inflight", "sleeping", "returned"}
    /\ p_requests <= MAX_RETRIES
    /\ Len(p_hist) <= p_requests
    /\ Len(p_sleeps) <= MAX_RETRIES - 1
    /\ p_pc \in {"inflight", "sleeping", "returned"} => p_requests >= 1
    /\ p_pc = "sleeping" => p_attempt < MAX_RETRIES
    /\ p_pc = "returned" =>
         /\ p_result.status \in {"valid", "invalid", "model_not_found", "error"}
         /\ p_result.key = p_key
         /\ Len(p_hist) = p_requests

C18_Witness ==
    /\ p_pc = "returned"
    /\ p_requests = 3
    /\ Len(p_sleeps) = 2
    /\ p_hist[1].kind = "timeout"
    /\ Last(p_hist).kind = "timeout"

\* C19 as stated: the summary's valid count is the number of results with
\* status valid and its other-error count the number with status error.
C19_SummaryPartitions ==
    summary.printed =>
        /\ summary.valid = Cardinality({j \in DOMAIN results : results[j].status = "valid"})
        /\ summary.error = Cardinality({j \in DOMAIN results : results[j].status = "error"})

\* C20: under fair scheduling the run ends in normal completion with every
\* task done, every result recorded, every slot released and no task left
\* at the gate.
C20_EventuallyCompletes ==
    <>[](/\ mpc \in {"done", "empty"}
         /\ mpc = "done" =>
              /\ \A i \in DOMAIN pc : pc[i] = "done"
              /\ \A i \in 1..total : Occurrences(progress, i) = 1
              /\ sem = concurrency
              /\ waiters = <<>>
              /\ woken = {})

C20_Witness ==
    /\ mpc = "done"
    /\ concurrency = 1
    /\ total = 2
    /\ sem = 1
    /\ progress = <<1, 2>>

====
